---- MODULE Spec2Model ----
(***************************************************************************)
(* Model of the photo album creator: the page composition engine           *)
(* (src/components/AlbumLayoutPreview.tsx: label normalisation, bucketing  *)
(* and chunking of photos into page templates), the crop review            *)
(* (src/components/CropReview.tsx) and the analysis runs of the album      *)
(* builder (src/components/AlbumBuilder.tsx).                              *)
(*                                                                         *)
(* A JavaScript string is modelled as a sequence of one-character strings, *)
(* so that toLowerCase is a real conversion.  A photo is a record          *)
(*   [id, width, height, hasLayout, layout]                                *)
(* where hasLayout = FALSE stands for analysis?.layout being undefined.    *)
(***************************************************************************)
EXTENDS Integers, Sequences, FiniteSets, TLC

VARIABLES
  \* AlbumLayoutPreview: the items prop, the buckets and the memoized pages
  items, buckets, pages,
  \* CropReview: the items prop, the component state and the observed box
  cropItems, activeIndex, draftCrop, size,
  \* CropReview: the handler that ran last and the onChangeCrop call it made
  lastOp, lastCall,
  \* CropReview: the number of slider changes so far
  edits,
  \* AlbumBuilder: the items and isAnalyzing state, the bulk run of
  \* analyzePending, the per-photo Analyze handlers awaiting analyzeImage and
  \* the number of analyzeImage calls made for each photo, and the number
  \* of photos created so far
  albumItems, isAnalyzing, run, calls, requests, created

pageVars == <<items, buckets, pages>>

cropVars == <<cropItems, activeIndex, draftCrop, size, lastOp, lastCall, edits>>

analyzeVars == <<albumItems, isAnalyzing, run, calls, requests, created>>

vars == <<pageVars, cropVars, analyzeVars>>

(* ------------------------------ bounds --------------------------------- *)

\* longest photo list of the page assembly specification
MaxItems == 8

\* longest photo list of the label classification specification
MaxLabelItems == 1

\* most slider changes of one crop review
MaxEdits == 2

\* most photos ever selected into the album builder
MaxPhotos == 3

(* ----------------------- strings and toLowerCase ------------------------ *)

UpperChars ==
  <<"A","B","C","D","E","F","G","H","I","J","K","L","M",
    "N","O","P","Q","R","S","T","U","V","W","X","Y","Z">>

LowerChars ==
  <<"a","b","c","d","e","f","g","h","i","j","k","l","m",
    "n","o","p","q","r","s","t","u","v","w","x","y","z">>

\* the lower-case letter of each upper-case letter
LowerOf == [c \in {UpperChars[k] : k \in 1..26} |->
              LowerChars[CHOOSE k \in 1..26 : UpperChars[k] = c]]

\* String.prototype.toLowerCase on one character
toLowerChar(c) == IF c \in DOMAIN LowerOf THEN LowerOf[c] ELSE c

\* faulty variant: toLowerCase left out, the raw label is compared
toLowerCaseNone(s) == s

\* String.prototype.toLowerCase
toLowerCase(s) == [k \in 1..Len(s) |-> toLowerChar(s[k])]

(* ------------------------------ normalize ------------------------------- *)

Undefined == "undefined"

s_single      == <<"s","i","n","g","l","e">>
s_twocolumns  == <<"t","w","o","c","o","l","u","m","n","s">>
s_two_columns == <<"t","w","o","-","c","o","l","u","m","n","s">>
s_col         == <<"c","o","l">>
s_column      == <<"c","o","l","u","m","n">>
s_columns     == <<"c","o","l","u","m","n","s">>
s_tworows     == <<"t","w","o","r","o","w","s">>
s_two_rows    == <<"t","w","o","-","r","o","w","s">>
s_row         == <<"r","o","w">>
s_rows        == <<"r","o","w","s">>
s_grid2x2     == <<"g","r","i","d","2","x","2">>
s_grid        == <<"g","r","i","d">>
s_2x2         == <<"2","x","2">>

\* normalize: the layout label of a photo as a LayoutKind, or undefined
normalize(it) ==
  IF ~it.hasLayout \/ it.layout = <<>> THEN Undefined
  ELSE LET v == toLowerCase(it.layout) IN
    IF v = s_single THEN "single"
    ELSE IF v = s_twocolumns \/ v = s_two_columns \/ v = s_col
            \/ v = s_column \/ v = s_columns THEN "twoColumns"
    ELSE IF v = s_tworows \/ v = s_two_rows \/ v = s_row \/ v = s_rows
      THEN "twoRows"
    ELSE IF v = s_grid2x2 \/ v = s_grid \/ v = s_2x2 THEN "grid2x2"
    ELSE Undefined

(* ------------------------------ buildPages ------------------------------ *)

Min(a, b) == IF a < b THEN a ELSE b

\* faulty variant: slice with an inclusive end index
sliceInclusive(arr, from, to) == SubSeq(arr, from + 1, Min(to + 1, Len(arr)))

\* Array.prototype.slice(from, to) with 0-based, end-exclusive indices
slice(arr, from, to) == SubSeq(arr, from + 1, Min(to, Len(arr)))

RECURSIVE chunkFrom(_, _, _)
\* the loop of chunk, from index i on
chunkFrom(arr, n, i) ==
  IF i < Len(arr)
  THEN <<slice(arr, i, i + n)>> \o chunkFrom(arr, n, i + n)
  ELSE <<>>

\* chunk(arr, n): consecutive groups of n, the last one possibly shorter
chunk(arr, n) == chunkFrom(arr, n, 0)

EmptyBuckets == [singles |-> <<>>, twoCols |-> <<>>, twoRows |-> <<>>, grid4 |-> <<>>]

\* faulty variant: grid2x2 photos are put at the front of their bucket
pushItemUnshift(b, it) ==
  LET kind == normalize(it) IN
    IF kind = "single" THEN [b EXCEPT !.singles = Append(@, it)]
    ELSE IF kind = "twoColumns" THEN [b EXCEPT !.twoCols = Append(@, it)]
    ELSE IF kind = "twoRows" THEN [b EXCEPT !.twoRows = Append(@, it)]
    ELSE IF kind = "grid2x2" THEN [b EXCEPT !.grid4 = <<it>> \o @]
    ELSE IF it.width >= it.height THEN [b EXCEPT !.twoRows = Append(@, it)]
    ELSE [b EXCEPT !.twoCols = Append(@, it)]

\* faulty variant: the orientation fallback reversed
pushItemSwapped(b, it) ==
  LET kind == normalize(it) IN
    IF kind = "single" THEN [b EXCEPT !.singles = Append(@, it)]
    ELSE IF kind = "twoColumns" THEN [b EXCEPT !.twoCols = Append(@, it)]
    ELSE IF kind = "twoRows" THEN [b EXCEPT !.twoRows = Append(@, it)]
    ELSE IF kind = "grid2x2" THEN [b EXCEPT !.grid4 = Append(@, it)]
    ELSE IF it.width >= it.height THEN [b EXCEPT !.twoCols = Append(@, it)]
    ELSE [b EXCEPT !.twoRows = Append(@, it)]

\* one iteration of the bucketing loop
pushItem(b, it) ==
  LET kind == normalize(it) IN
    IF kind = "single" THEN [b EXCEPT !.singles = Append(@, it)]
    ELSE IF kind = "twoColumns" THEN [b EXCEPT !.twoCols = Append(@, it)]
    ELSE IF kind = "twoRows" THEN [b EXCEPT !.twoRows = Append(@, it)]
    ELSE IF kind = "grid2x2" THEN [b EXCEPT !.grid4 = Append(@, it)]
    ELSE IF it.width >= it.height THEN [b EXCEPT !.twoRows = Append(@, it)]
    ELSE [b EXCEPT !.twoCols = Append(@, it)]

RECURSIVE bucketsFrom(_, _, _)
\* the bucketing loop over its[i..]
bucketsFrom(its, i, b) ==
  IF i > Len(its) THEN b ELSE bucketsFrom(its, i + 1, pushItem(b, its[i]))

\* the four buckets singles, twoCols, twoRows, grid4 after the loop
bucketsOf(its) == bucketsFrom(its, 1, EmptyBuckets)

\* faulty variant: the single pages are pushed in reverse bucket order
singlePagesReversed(singles) ==
  [k \in 1..Len(singles) |->
     [type |-> "single", items |-> <<singles[Len(singles) + 1 - k]>>]]

\* pages of the singles bucket
singlePages(singles) ==
  [k \in 1..Len(singles) |-> [type |-> "single", items |-> <<singles[k]>>]]

\* faulty variant: an odd last photo keeps the bucket's tag
pairPageNoRetag(kind, pair) == [type |-> kind, items |-> pair]

\* page of one group of the twoColumns or twoRows bucket
pairPage(kind, pair) ==
  IF Len(pair) = 2 THEN [type |-> kind, items |-> pair]
  ELSE [type |-> "single", items |-> pair]

\* pages of the twoColumns or twoRows bucket
pairPages(kind, bucket) ==
  LET groups == chunk(bucket, 2) IN
    [k \in 1..Len(groups) |-> pairPage(kind, groups[k])]

\* faulty variant: a group of three keeps its last two photos
quadPageLastTwo(quad) ==
  IF Len(quad) = 4 THEN <<[type |-> "grid2x2", items |-> quad]>>
  ELSE IF Len(quad) = 3 THEN <<[type |-> "twoRows", items |-> slice(quad, 1, 3)]>>
  ELSE IF Len(quad) = 2 THEN <<[type |-> "twoColumns", items |-> quad]>>
  ELSE IF Len(quad) = 1 THEN <<[type |-> "single", items |-> quad]>>
  ELSE <<>>

\* faulty variant: a group of two becomes a twoRows page
quadPageTwoAsRows(quad) ==
  IF Len(quad) = 4 THEN <<[type |-> "grid2x2", items |-> quad]>>
  ELSE IF Len(quad) = 3 THEN <<[type |-> "twoRows", items |-> slice(quad, 0, 2)]>>
  ELSE IF Len(quad) = 2 THEN <<[type |-> "twoRows", items |-> quad]>>
  ELSE IF Len(quad) = 1 THEN <<[type |-> "single", items |-> quad]>>
  ELSE <<>>

\* faulty variant: a group of three becomes a twoRows page with all three photos
quadPageKeepThree(quad) ==
  IF Len(quad) = 4 THEN <<[type |-> "grid2x2", items |-> quad]>>
  ELSE IF Len(quad) = 3 THEN <<[type |-> "twoRows", items |-> quad]>>
  ELSE IF Len(quad) = 2 THEN <<[type |-> "twoColumns", items |-> quad]>>
  ELSE IF Len(quad) = 1 THEN <<[type |-> "single", items |-> quad]>>
  ELSE <<>>

\* the page (if any) of one group of the grid2x2 bucket
quadPage(quad) ==
  IF Len(quad) = 4 THEN <<[type |-> "grid2x2", items |-> quad]>>
  ELSE IF Len(quad) = 3 THEN <<[type |-> "twoRows", items |-> slice(quad, 0, 2)]>>
  ELSE IF Len(quad) = 2 THEN <<[type |-> "twoColumns", items |-> quad]>>
  ELSE IF Len(quad) = 1 THEN <<[type |-> "single", items |-> quad]>>
  ELSE <<>>

RECURSIVE quadPagesFrom(_, _)
\* the loop over the groups of the grid2x2 bucket, from group k on
quadPagesFrom(groups, k) ==
  IF k > Len(groups) THEN <<>>
  ELSE quadPage(groups[k]) \o quadPagesFrom(groups, k + 1)

\* pages of the grid2x2 bucket
quadPages(grid4) == quadPagesFrom(chunk(grid4, 4), 1)

\* faulty variant: the twoRows loop runs before the twoColumns loop
pagesOfRowsFirst(b) ==
  singlePages(b.singles) \o pairPages("twoRows", b.twoRows)
    \o pairPages("twoColumns", b.twoCols) \o quadPages(b.grid4)

\* the pages pushed for the four buckets, in the order of the four loops
pagesOf(b) ==
  singlePages(b.singles) \o pairPages("twoColumns", b.twoCols)
    \o pairPages("twoRows", b.twoRows) \o quadPages(b.grid4)

(* ------------------------------- inputs --------------------------------- *)

Photo(id, w, h, has, label) ==
  [id |-> id, width |-> w, height |-> h, hasLayout |-> has, layout |-> label]

\* photo inputs of the page assembly specification: <<width, height, hasLayout, layout>>
Templates ==
  { <<1200, 800, TRUE, s_single>>,
    <<800, 1200, FALSE, <<>>>>,
    <<800, 1200, TRUE, <<"R","o","w","s">>>>,
    <<1200, 800, TRUE, <<"G","R","I","D">>>> }

\* String.prototype.toUpperCase on one character (used to build inputs)
toUpperChar(c) ==
  IF \E k \in 1..26 : LowerChars[k] = c
  THEN UpperChars[CHOOSE k \in 1..26 : LowerChars[k] = c]
  ELSE c

UpperCased(w) == [k \in 1..Len(w) |-> toUpperChar(w[k])]

Capitalized(w) == [k \in 1..Len(w) |-> IF k = 1 THEN toUpperChar(w[k]) ELSE w[k]]

Alternating(w) == [k \in 1..Len(w) |-> IF k % 2 = 0 THEN toUpperChar(w[k]) ELSE w[k]]

Tags == {"single", "twoColumns", "twoRows", "grid2x2"}

\* the synonym set of each tag, as documented
Synonyms(tag) ==
  CASE tag = "single" -> {s_single}
    [] tag = "twoColumns" -> {s_twocolumns, s_two_columns, s_col, s_column, s_columns}
    [] tag = "twoRows" -> {s_tworows, s_two_rows, s_row, s_rows}
    [] tag = "grid2x2" -> {s_grid2x2, s_grid, s_2x2}

AllSynonyms == UNION {Synonyms(tag) : tag \in Tags}

\* labels matching no synonym (the empty string among them)
UnrecognizedLabels ==
  { <<>>,
    <<"f","o","o">>,
    <<"s","i","n","g","l","e","s">>,
    <<" ","s","i","n","g","l","e">>,
    <<"c","o">>,
    <<"t","w","o","_","c","o","l","u","m","n","s">>,
    <<"g","r","i","d","-","2","x","2">>,
    <<"T","W","O"," ","R","O","W","S">> }

\* the labels an analysis may attach in the label classification specification
Labels ==
  AllSynonyms
    \cup {UpperCased(w) : w \in AllSynonyms}
    \cup {Capitalized(w) : w \in AllSynonyms}
    \cup {Alternating(w) : w \in AllSynonyms}
    \cup {<<"T","w","o","-","C","o","l","u","m","n","s">>}
    \cup UnrecognizedLabels

\* <<width, height>> of the photos of the label classification specification
Dims == {<<800, 1200>>, <<1200, 800>>, <<1000, 1000>>}

(* ------------------------------ CropReview ------------------------------ *)

Max(a, b) == IF a > b THEN a ELSE b

\* the minimum visible extent the clamps leave on each axis
MinVisible == 10

\* an EdgeCrop is a function from the edges that are set to their insets
EmptyCrop == [e \in {} |-> 0]

\* c.left || 0, c.right || 0, ...: an unset inset reads as 0
Inset(c, e) == IF e \in DOMAIN c THEN c[e] ELSE 0

\* { ...c, [e]: v }
WithEdge(c, e, v) == [x \in DOMAIN c \cup {e} |-> IF x = e THEN v ELSE c[x]]

\* a CropReviewItem; hasCrop is analysis?.crop being set, hasUser is userCrop
\* being set
CropItem(id, w, h, hasCrop, crop) ==
  [id |-> id, width |-> w, height |-> h, hasCrop |-> hasCrop, crop |-> crop,
   hasUser |-> FALSE, userCrop |-> EmptyCrop]

\* itemsWithCrop: the items that have a suggested crop
itemsWithCrop(its) == SelectSeq(its, LAMBDA i : i.hasCrop)

\* current is defined: activeIndex names an item of itemsWithCrop
hasCurrent(its, idx) == idx >= 0 /\ idx < Len(itemsWithCrop(its))

\* current = itemsWithCrop[activeIndex]
currentOf(its, idx) == itemsWithCrop(its)[idx + 1]

\* effectiveCrop of the current item: a non-empty user override, else the
\* suggested crop, else {}
effectiveCrop(cur) ==
  IF cur.hasUser /\ DOMAIN cur.userCrop # {} THEN cur.userCrop
  ELSE IF cur.hasCrop THEN cur.crop ELSE EmptyCrop

\* the draft after a render: the effect sets it to effectiveCrop
draftOf(its, idx) ==
  IF hasCurrent(its, idx) THEN effectiveCrop(currentOf(its, idx)) ELSE EmptyCrop

\* faulty variant: bounded by the edge's own previous inset
clampLeftOwnEdge(cur, d, val) ==
  Max(0, Min(val, cur.width - MinVisible - Inset(d, "left")))

clampLeft(cur, d, val) ==
  Max(0, Min(val, cur.width - MinVisible - Inset(d, "right")))

clampRight(cur, d, val) ==
  Max(0, Min(val, cur.width - MinVisible - Inset(d, "left")))

clampTop(cur, d, val) ==
  Max(0, Min(val, cur.height - MinVisible - Inset(d, "bottom")))

clampBottom(cur, d, val) ==
  Max(0, Min(val, cur.height - MinVisible - Inset(d, "top")))

\* the draft after the onChange handler of the slider of edge e with value val
afterSlider(cur, d, e, val) ==
  CASE e = "left" -> WithEdge(d, "left", clampLeft(cur, d, val))
    [] e = "right" -> WithEdge(d, "right", clampRight(cur, d, val))
    [] e = "top" -> WithEdge(d, "top", clampTop(cur, d, val))
    [] e = "bottom" -> WithEdge(d, "bottom", clampBottom(cur, d, val))

\* no onChangeCrop call
NoCall == [called |-> FALSE, id |-> 0, remove |-> FALSE, crop |-> EmptyCrop]

\* onChangeCrop(id, crop), and onChangeCrop(id, null) when remove
Call(id, remove, crop) == [called |-> TRUE, id |-> id, remove |-> remove, crop |-> crop]

\* the handler that ran last: its name, for a slider its edge and requested
\* value, and whether the current photo had a user override when it ran
Op(name, edge, val, had) == [op |-> name, edge |-> edge, val |-> val, had |-> had]

\* the owner of the working set handles onChangeCrop: null removes the
\* photo's user override, a crop becomes the photo's user override
onChangeCrop(its, id, remove, crop) ==
  [k \in 1..Len(its) |->
     IF its[k].id = id
     THEN [its[k] EXCEPT !.hasUser = ~remove,
                         !.userCrop = IF remove THEN EmptyCrop ELSE crop]
     ELSE its[k]]

\* the crop review is not mounted
CropIdle ==
  /\ cropItems = <<>>
  /\ activeIndex = 0
  /\ draftCrop = EmptyCrop
  /\ size = [width |-> 0, height |-> 0]
  /\ lastOp = Op("init", "none", 0, FALSE)
  /\ lastCall = NoCall
  /\ edits = 0

(* ------------------------------- actions -------------------------------- *)

(* --------------------- AlbumBuilder: analysis runs ---------------------- *)

\* an AlbumImage as onFilesSelected creates it; analysis and error tell
\* whether the optional fields are set
AlbumImage(id) ==
  [id |-> id, status |-> "pending", analysis |-> FALSE, error |-> FALSE]

\* prev.map((p) => (p.id === id ? { ...p, status: "analyzing" } : p))
setAnalyzing(prev, id) ==
  [k \in 1..Len(prev) |->
     IF prev[k].id = id THEN [prev[k] EXCEPT !.status = "analyzing"] ELSE prev[k]]

\* prev.map((p) => (p.id === id ? { ...p, status: "done", analysis: res } : p))
setDone(prev, id) ==
  [k \in 1..Len(prev) |->
     IF prev[k].id = id
     THEN [prev[k] EXCEPT !.status = "done", !.analysis = TRUE] ELSE prev[k]]

\* prev.map((p) => (p.id === id ? { ...p, status: "error", error: message } : p))
setError(prev, id) ==
  [k \in 1..Len(prev) |->
     IF prev[k].id = id
     THEN [prev[k] EXCEPT !.status = "error", !.error = TRUE] ELSE prev[k]]

\* the ids of items.filter((x) => x.status === "pending"), in order
pendingIds(its) ==
  LET pend == SelectSeq(its, LAMBDA x : x.status = "pending")
  IN [k \in 1..Len(pend) |-> pend[k].id]

hasPending(its) == \E k \in 1..Len(its) : its[k].status = "pending"

\* the ids of the photos in the list
idsOf(its) == {its[k].id : k \in 1..Len(its)}

\* no bulk run yet
NoRun == [pc |-> "idle", toAnalyze |-> <<>>, k |-> 0]

\* AlbumBuilder is mounted: no photos, nothing running
AnalyzeIdle ==
  /\ albumItems = <<>>
  /\ isAnalyzing = FALSE
  /\ run = NoRun
  /\ calls = {}
  /\ requests = [id \in 1..MaxPhotos |-> 0]
  /\ created = 0

\* no photos yet
PagesIdle ==
  /\ items = <<>>
  /\ buckets = EmptyBuckets
  /\ pages = <<>>

Init ==
  /\ PagesIdle
  /\ CropIdle
  /\ AnalyzeIdle

\* AlbumLayoutPreview is rendered with one more photo in its items prop;
\* useMemo recomputes the pages
AddItem(t, max) ==
  /\ Len(items) < max
  /\ items' = Append(items, Photo(Len(items) + 1, t[1], t[2], t[3], t[4]))
  /\ buckets' = bucketsOf(items')
  /\ pages' = pagesOf(buckets')
  /\ UNCHANGED <<cropVars, analyzeVars>>

Next == \E t \in Templates : AddItem(t, MaxItems)

Spec == Init /\ [][Next]_vars

\* the analysis of photo i returns and its layout label is attached to the
\* photo; the items prop changes and useMemo recomputes the pages
SetLayout(i, label) ==
  /\ i \in 1..Len(items)
  /\ ~items[i].hasLayout
  /\ items' = [items EXCEPT ![i].hasLayout = TRUE, ![i].layout = label]
  /\ buckets' = bucketsOf(items')
  /\ pages' = pagesOf(buckets')
  /\ UNCHANGED <<cropVars, analyzeVars>>

\* photos are uploaded without analysis, then labelled by the analysis
NextLabels ==
  \/ \E d \in Dims : AddItem(<<d[1], d[2], FALSE, <<>>>>, MaxLabelItems)
  \/ \E i \in 1..MaxLabelItems + 1 : \E label \in Labels : SetLayout(i, label)

SpecLabels == Init /\ [][NextLabels]_vars

(* --------------------------- CropReview actions -------------------------- *)

\* the photos handed to the crop review: a valid suggestion, a suggestion
\* the analysis returned without regard to the photo's size, no suggestion,
\* and an empty suggestion
CropPhoto1 == CropItem(1, 1000, 800, TRUE, [right |-> 400])

CropPhoto2 == CropItem(2, 1000, 800, TRUE, [left |-> 600, right |-> 600, top |-> 900])

CropPhoto3 == CropItem(3, 1000, 800, FALSE, EmptyCrop)

CropPhoto4 == CropItem(4, 600, 600, TRUE, EmptyCrop)

\* the items props the crop review is mounted with
CropItemLists ==
  { <<CropPhoto1, CropPhoto3, CropPhoto4>>,
    <<CropPhoto4, CropPhoto2>>,
    <<CropPhoto1>> }

\* the values the sliders request
Requests == {0, 400, 700}

\* the content boxes the ResizeObserver reports
BoxSizes ==
  { [width |-> 0, height |-> 0],
    [width |-> 500, height |-> 400],
    [width |-> 250, height |-> 0] }

current == currentOf(cropItems, activeIndex)

\* CropReview is mounted: activeIndex 0, the draft is the effective crop
InitCrop ==
  /\ PagesIdle
  /\ AnalyzeIdle
  /\ cropItems \in CropItemLists
  /\ activeIndex = 0
  /\ draftCrop = draftOf(cropItems, 0)
  /\ size = [width |-> 0, height |-> 0]
  /\ lastOp = Op("init", "none", 0, FALSE)
  /\ lastCall = NoCall
  /\ edits = 0

\* onChange of the slider of edge e, a range input from 0 to the photo's size
\* along the edge's axis: the clamped value goes into the draft
ChangeSlider(e, val) ==
  /\ hasCurrent(cropItems, activeIndex)
  /\ edits < MaxEdits
  /\ 0 <= val
  /\ val <= (IF e \in {"left", "right"} THEN current.width ELSE current.height)
  /\ draftCrop' = afterSlider(current, draftCrop, e, val)
  /\ lastOp' = Op("slider", e, val, current.hasUser)
  /\ lastCall' = NoCall
  /\ edits' = edits + 1
  /\ UNCHANGED <<cropItems, activeIndex, size, pageVars, analyzeVars>>

ChangeLeft(val) == ChangeSlider("left", val)

ChangeRight(val) == ChangeSlider("right", val)

ChangeTop(val) == ChangeSlider("top", val)

ChangeBottom(val) == ChangeSlider("bottom", val)

\* the draft the Reset and Clear handlers set: current.analysis?.crop || {}
suggestedOf(cur) == IF cur.hasCrop THEN cur.crop ELSE EmptyCrop

\* faulty variant: the draft is emptied
ResetToEmpty ==
  /\ hasCurrent(cropItems, activeIndex)
  /\ current.hasCrop
  /\ draftCrop' = EmptyCrop
  /\ lastOp' = Op("reset", "none", 0, current.hasUser)
  /\ lastCall' = NoCall
  /\ UNCHANGED <<cropItems, activeIndex, size, edits, pageVars, analyzeVars>>

\* Reset: the draft goes back to the suggested crop
Reset ==
  /\ hasCurrent(cropItems, activeIndex)
  /\ current.hasCrop
  /\ draftCrop' = suggestedOf(current)
  /\ lastOp' = Op("reset", "none", 0, current.hasUser)
  /\ lastCall' = NoCall
  /\ UNCHANGED <<cropItems, activeIndex, size, edits, pageVars, analyzeVars>>

\* faulty variant: only the draft is set, onChangeCrop is not called
ClearDraftOnly ==
  /\ hasCurrent(cropItems, activeIndex)
  /\ draftCrop' = suggestedOf(current)
  /\ lastOp' = Op("clear", "none", 0, current.hasUser)
  /\ lastCall' = NoCall
  /\ UNCHANGED <<cropItems, activeIndex, size, edits, pageVars, analyzeVars>>

\* Clear: onChangeCrop(current.id, null), the draft goes back to the
\* suggested crop; the effect of the next render sets the draft to the new
\* effective crop when that changed
Clear ==
  /\ hasCurrent(cropItems, activeIndex)
  /\ LET its2 == onChangeCrop(cropItems, current.id, TRUE, EmptyCrop)
         eff2 == draftOf(its2, activeIndex)
     IN /\ cropItems' = its2
        /\ draftCrop' = IF eff2 # effectiveCrop(current) THEN eff2
                        ELSE suggestedOf(current)
  /\ lastOp' = Op("clear", "none", 0, current.hasUser)
  /\ lastCall' = Call(current.id, TRUE, EmptyCrop)
  /\ UNCHANGED <<activeIndex, size, edits, pageVars, analyzeVars>>

\* faulty variant: moves on without calling onChangeCrop
SaveNextNoCall ==
  /\ hasCurrent(cropItems, activeIndex)
  /\ activeIndex' = IF activeIndex < Len(itemsWithCrop(cropItems)) - 1
                    THEN activeIndex + 1 ELSE activeIndex
  /\ draftCrop' = IF activeIndex' # activeIndex
                  THEN draftOf(cropItems, activeIndex') ELSE draftCrop
  /\ lastOp' = Op("save", "none", 0, current.hasUser)
  /\ lastCall' = NoCall
  /\ UNCHANGED <<cropItems, size, edits, pageVars, analyzeVars>>

\* Save & Next: onChangeCrop(current.id, { ...draftCrop }), then the next
\* item unless this is the last; the effect of the next render sets the draft
\* to the effective crop when that or the current item changed
SaveNext ==
  /\ hasCurrent(cropItems, activeIndex)
  /\ LET its2 == onChangeCrop(cropItems, current.id, FALSE, draftCrop)
         idx2 == IF activeIndex < Len(itemsWithCrop(cropItems)) - 1
                 THEN activeIndex + 1 ELSE activeIndex
         eff2 == draftOf(its2, idx2)
     IN /\ cropItems' = its2
        /\ activeIndex' = idx2
        /\ draftCrop' = IF \/ idx2 # activeIndex
                           \/ DOMAIN draftCrop # {}
                           \/ eff2 # effectiveCrop(current)
                        THEN eff2 ELSE draftCrop
  /\ lastOp' = Op("save", "none", 0, current.hasUser)
  /\ lastCall' = Call(current.id, FALSE, draftCrop)
  /\ UNCHANGED <<size, edits, pageVars, analyzeVars>>

\* Prev (enabled unless at the first item); the effect loads the draft
GoPrev ==
  /\ hasCurrent(cropItems, activeIndex)
  /\ activeIndex # 0
  /\ activeIndex' = Max(0, activeIndex - 1)
  /\ draftCrop' = draftOf(cropItems, activeIndex')
  /\ lastOp' = Op("prev", "none", 0, current.hasUser)
  /\ lastCall' = NoCall
  /\ UNCHANGED <<cropItems, size, edits, pageVars, analyzeVars>>

\* Next (enabled unless at the last item); the effect loads the draft
GoNext ==
  /\ hasCurrent(cropItems, activeIndex)
  /\ ~(activeIndex >= Len(itemsWithCrop(cropItems)) - 1)
  /\ activeIndex' = Min(Len(itemsWithCrop(cropItems)) - 1, activeIndex + 1)
  /\ draftCrop' = draftOf(cropItems, activeIndex')
  /\ lastOp' = Op("next", "none", 0, current.hasUser)
  /\ lastCall' = NoCall
  /\ UNCHANGED <<cropItems, size, edits, pageVars, analyzeVars>>

\* the ResizeObserver reports a new content box
Resize(box) ==
  /\ size # box
  /\ size' = box
  /\ UNCHANGED <<cropItems, activeIndex, draftCrop, lastOp, lastCall, edits, pageVars, analyzeVars>>

\* size.width || 1 and size.height || 1
BoxOr1(n) == IF n = 0 THEN 1 ELSE n

\* the scale factors, as fractions num / den
\* faulty variant: the box width is used as it is
scaleXNoGuard ==
  IF hasCurrent(cropItems, activeIndex)
  THEN [num |-> size.width, den |-> current.width]
  ELSE [num |-> 1, den |-> 1]

scaleX ==
  IF hasCurrent(cropItems, activeIndex)
  THEN [num |-> BoxOr1(size.width), den |-> current.width]
  ELSE [num |-> 1, den |-> 1]

scaleY ==
  IF hasCurrent(cropItems, activeIndex)
  THEN [num |-> BoxOr1(size.height), den |-> current.height]
  ELSE [num |-> 1, den |-> 1]

\* the overlay offsets, as fractions num / den
leftW == [num |-> Inset(draftCrop, "left") * scaleX.num, den |-> scaleX.den]

rightW == [num |-> Inset(draftCrop, "right") * scaleX.num, den |-> scaleX.den]

topH == [num |-> Inset(draftCrop, "top") * scaleY.num, den |-> scaleY.den]

bottomH == [num |-> Inset(draftCrop, "bottom") * scaleY.num, den |-> scaleY.den]

NextCrop ==
  \/ \E val \in Requests : ChangeLeft(val)
  \/ \E val \in Requests : ChangeRight(val)
  \/ \E val \in Requests : ChangeTop(val)
  \/ \E val \in Requests : ChangeBottom(val)
  \/ Reset
  \/ Clear
  \/ SaveNext
  \/ GoPrev
  \/ GoNext
  \/ \E box \in BoxSizes : Resize(box)

SpecCrop == InitCrop /\ [][NextCrop]_vars

(* ------------------ CropReview: changes of the items prop --------------- *)

\* the crop a photo gains when its analysis arrives
GainedCrop == [left |-> 100]

\* the ids a photo of the crop review can have
CropIds == {1, 2, 3, 4}

\* faulty variant: Math.max(0, ...) left out
clampIndexNoFloor(idx, n) == IF idx > n - 1 THEN n - 1 ELSE idx

\* the index-clamping effect for the index idx and n items with a crop
clampIndex(idx, n) == IF idx > n - 1 THEN Max(0, n - 1) ELSE idx

\* CropReview is rendered with the items prop its2: the index effect runs
\* when the number of items with a crop changed, the draft effect when the
\* effective crop or the id of the current item changed
SetItems(its2) ==
  LET n == Len(itemsWithCrop(cropItems))
      n2 == Len(itemsWithCrop(its2))
      idx2 == IF n2 # n THEN clampIndex(activeIndex, n2) ELSE activeIndex
      same == /\ hasCurrent(cropItems, activeIndex)
              /\ hasCurrent(its2, idx2)
              /\ currentOf(its2, idx2).id = current.id
              /\ effectiveCrop(currentOf(its2, idx2)) = effectiveCrop(current)
  IN /\ its2 # cropItems
     /\ cropItems' = its2
     /\ activeIndex' = idx2
     /\ draftCrop' = IF same THEN draftCrop ELSE draftOf(its2, idx2)
     /\ lastOp' = Op("items", "none", activeIndex, FALSE)
     /\ lastCall' = NoCall
     /\ UNCHANGED <<size, edits, pageVars, analyzeVars>>

\* the parent removes the photo id from the list
RemovePhoto(id) ==
  /\ \E k \in 1..Len(cropItems) : cropItems[k].id = id
  /\ SetItems(SelectSeq(cropItems, LAMBDA p : p.id # id))

\* the photo id loses its suggested crop
LoseCrop(id) ==
  /\ \E k \in 1..Len(cropItems) : cropItems[k].id = id /\ cropItems[k].hasCrop
  /\ SetItems([k \in 1..Len(cropItems) |->
                 IF cropItems[k].id = id
                 THEN [cropItems[k] EXCEPT !.hasCrop = FALSE, !.crop = EmptyCrop]
                 ELSE cropItems[k]])

\* the photo id gains a suggested crop
GainCrop(id) ==
  /\ \E k \in 1..Len(cropItems) : cropItems[k].id = id /\ ~cropItems[k].hasCrop
  /\ SetItems([k \in 1..Len(cropItems) |->
                 IF cropItems[k].id = id
                 THEN [cropItems[k] EXCEPT !.hasCrop = TRUE, !.crop = GainedCrop]
                 ELSE cropItems[k]])

NextCropItems ==
  \/ GoPrev
  \/ GoNext
  \/ SaveNext
  \/ \E id \in CropIds : RemovePhoto(id)
  \/ \E id \in CropIds : LoseCrop(id)
  \/ \E id \in CropIds : GainCrop(id)

SpecCropItems == InitCrop /\ [][NextCropItems]_vars

(* ----------------------- AlbumBuilder: the actions ---------------------- *)

\* the numbers of files one selection brings
FileCounts == {1, 2}

\* onFilesSelected with n files: n pending photos with fresh ids are appended
onFilesSelected(n) ==
  /\ created + n <= MaxPhotos
  /\ albumItems' = albumItems \o [k \in 1..n |-> AlbumImage(created + k)]
  /\ created' = created + n
  /\ UNCHANGED <<isAnalyzing, run, calls, requests, pageVars, cropVars>>

\* the Analyze button (disabled unless hasPending and not isAnalyzing):
\* analyzePending up to its first await
analyzePending ==
  /\ hasPending(albumItems)
  /\ ~isAnalyzing
  /\ LET toAnalyze == pendingIds(albumItems)
     IN /\ isAnalyzing' = TRUE
        /\ albumItems' = setAnalyzing(albumItems, toAnalyze[1])
        /\ requests' = [requests EXCEPT ![toAnalyze[1]] = @ + 1]
        /\ run' = [pc |-> "await", toAnalyze |-> toAnalyze, k |-> 1]
  /\ UNCHANGED <<calls, created, pageVars, cropVars>>

\* analyzePending from the end of one pass of its loop, the list being its2:
\* the next photo is set to analyzing and its call awaited, or after the last
\* photo the finally block sets isAnalyzing to false
loopOn(its2) ==
  IF run.k < Len(run.toAnalyze)
  THEN /\ albumItems' = setAnalyzing(its2, run.toAnalyze[run.k + 1])
       /\ requests' = [requests EXCEPT ![run.toAnalyze[run.k + 1]] = @ + 1]
       /\ run' = [run EXCEPT !.k = @ + 1]
       /\ UNCHANGED isAnalyzing
  ELSE /\ albumItems' = its2
       /\ run' = [run EXCEPT !.pc = "idle"]
       /\ isAnalyzing' = FALSE
       /\ UNCHANGED requests

\* the analyzeImage call awaited by analyzePending returns
bulkReturns ==
  /\ run.pc = "await"
  /\ loopOn(setDone(albumItems, run.toAnalyze[run.k]))
  /\ UNCHANGED <<calls, created, pageVars, cropVars>>

\* faulty variant: no inner try/catch, the rejection leaves the loop
bulkThrowsUncaught ==
  /\ run.pc = "await"
  /\ run' = [run EXCEPT !.pc = "idle"]
  /\ isAnalyzing' = FALSE
  /\ UNCHANGED <<albumItems, requests, calls, created, pageVars, cropVars>>

\* the analyzeImage call awaited by analyzePending throws
bulkThrows ==
  /\ run.pc = "await"
  /\ loopOn(setError(albumItems, run.toAnalyze[run.k]))
  /\ UNCHANGED <<calls, created, pageVars, cropVars>>

\* the Analyze button of one photo (rendered while its status is pending):
\* the handler up to its await
analyzeItem(id) ==
  /\ \E k \in 1..Len(albumItems) :
       albumItems[k].id = id /\ albumItems[k].status = "pending"
  /\ albumItems' = setAnalyzing(albumItems, id)
  /\ requests' = [requests EXCEPT ![id] = @ + 1]
  /\ calls' = calls \cup {id}
  /\ UNCHANGED <<isAnalyzing, run, created, pageVars, cropVars>>

\* the analyzeImage call of a photo's own Analyze handler returns
itemReturns(id) ==
  /\ id \in calls
  /\ albumItems' = setDone(albumItems, id)
  /\ calls' = calls \ {id}
  /\ UNCHANGED <<isAnalyzing, run, requests, created, pageVars, cropVars>>

\* the analyzeImage call of a photo's own Analyze handler throws
itemThrows(id) ==
  /\ id \in calls
  /\ albumItems' = setError(albumItems, id)
  /\ calls' = calls \ {id}
  /\ UNCHANGED <<isAnalyzing, run, requests, created, pageVars, cropVars>>

\* Remove of one photo
removeItem(id) ==
  /\ id \in idsOf(albumItems)
  /\ albumItems' = SelectSeq(albumItems, LAMBDA p : p.id # id)
  /\ UNCHANGED <<isAnalyzing, run, calls, requests, created, pageVars, cropVars>>

\* Clear: setItems([])
clearItems ==
  /\ albumItems # <<>>
  /\ albumItems' = <<>>
  /\ UNCHANGED <<isAnalyzing, run, calls, requests, created, pageVars, cropVars>>

InitAnalyze ==
  /\ PagesIdle
  /\ CropIdle
  /\ AnalyzeIdle

NextAnalyze ==
  \/ \E n \in FileCounts : onFilesSelected(n)
  \/ analyzePending
  \/ bulkReturns
  \/ bulkThrows
  \/ \E id \in 1..MaxPhotos : analyzeItem(id)
  \/ \E id \in 1..MaxPhotos : itemReturns(id)
  \/ \E id \in 1..MaxPhotos : itemThrows(id)
  \/ \E id \in 1..MaxPhotos : removeItem(id)
  \/ clearItems

\* every analyzeImage call awaited by analyzePending returns or throws in the
\* end, and the continuation of the await then runs
SpecAnalyze ==
  InitAnalyze /\ [][NextAnalyze]_vars /\ WF_vars(bulkReturns \/ bulkThrows)


(* ----------------------- vocabulary of the claims ----------------------- *)

\* the number of photos a page template requires
Required(type) ==
  CASE type = "single" -> 1
    [] type = "twoColumns" -> 2
    [] type = "twoRows" -> 2
    [] type = "grid2x2" -> 4

\* the bucket of a tag
BucketOfTag(tag) ==
  CASE tag = "single" -> buckets.singles
    [] tag = "twoColumns" -> buckets.twoCols
    [] tag = "twoRows" -> buckets.twoRows
    [] tag = "grid2x2" -> buckets.grid4

RECURSIVE FlatFrom(_)
\* the photos of a page sequence, page by page, in page order
FlatFrom(ps) == IF ps = <<>> THEN <<>> ELSE Head(ps).items \o FlatFrom(Tail(ps))

\* how often photo ph occurs in the sequence e
Occurrences(ph, e) == Cardinality({k \in 1..Len(e) : e[k] = ph})

InSeq(x, seq) == \E k \in 1..Len(seq) : seq[k] = x

\* the pages all of whose photos are in the given bucket, in output order
PagesFrom(bucket) ==
  SelectSeq(pages, LAMBDA p : \A k \in 1..Len(p.items) : InSeq(p.items[k], bucket))

\* rank of the bucket a page's photos come from, in the documented output order
OriginRank(p) ==
  IF p.items = <<>> THEN 0
  ELSE IF \A k \in 1..Len(p.items) : InSeq(p.items[k], buckets.singles) THEN 1
  ELSE IF \A k \in 1..Len(p.items) : InSeq(p.items[k], buckets.twoCols) THEN 2
  ELSE IF \A k \in 1..Len(p.items) : InSeq(p.items[k], buckets.twoRows) THEN 3
  ELSE IF \A k \in 1..Len(p.items) : InSeq(p.items[k], buckets.grid4) THEN 4
  ELSE 0

RECURSIVE RanksFrom(_)
\* the origin ranks of a page sequence, page by page
RanksFrom(ps) ==
  IF ps = <<>> THEN <<>> ELSE <<OriginRank(Head(ps))>> \o RanksFrom(Tail(ps))

\* the expected pages of a bucket split in pairs: full pairs of the bucket's
\* tag, then a single page for an odd last photo
ExpectedPairPages(kind, b) ==
  [k \in 1..((Len(b) + 1) \div 2) |->
     IF 2 * k <= Len(b)
     THEN [type |-> kind, items |-> <<b[2 * k - 1], b[2 * k]>>]
     ELSE [type |-> "single", items |-> <<b[Len(b)]>>]]

(* -------------------------------- claims -------------------------------- *)

\* C1: every page emitted by buildPages has exactly as many items as its tag
\* requires (single 1, twoColumns 2, twoRows 2, grid2x2 4), the pages of the
\* remainder fallbacks included.
C1_PageCardinality ==
  \A p \in 1..Len(pages) : Len(pages[p].items) = Required(pages[p].type)

\* C1 witness: the remainder fallbacks of all three chunked buckets have acted
C1_Witness ==
  /\ Len(buckets.grid4) = 3
  /\ Len(buckets.twoCols) = 1
  /\ Len(buckets.twoRows) = 3
  /\ Len(pages) = 4
  /\ pages[4].type = "twoRows"

\* C2: no photo appears twice on the pages; every photo appears exactly once
\* unless it is the third leftover photo of a grid2x2 bucket of size 3 mod 4;
\* the number of items over all pages is the number of photos, minus one
\* exactly when the grid2x2 bucket size is 3 mod 4.
C2_EachPhotoOnce ==
  LET g == buckets.grid4
      drops == Len(g) % 4 = 3
      e == FlatFrom(pages)
  IN /\ \A a, b \in 1..Len(e) : a # b => e[a] # e[b]
     /\ \A i \in 1..Len(items) :
          Occurrences(items[i], e) = IF drops /\ items[i] = g[Len(g)] THEN 0 ELSE 1
     /\ Len(e) = Len(items) - (IF drops THEN 1 ELSE 0)

\* C2 witness: a grid2x2 bucket of 7 next to another photo, one photo dropped
C2_Witness ==
  /\ Len(buckets.grid4) = 7
  /\ Len(items) = 8
  /\ Len(FlatFrom(pages)) = 7

\* C3: for a grid2x2 bucket of size 4k+3, the bucket yields k grid2x2 pages
\* of 4 and then, as the final page, a twoRows page with the first two of the
\* three leftover photos; the third leftover photo is on no page.
C3_GridRemainderThree ==
  LET g == buckets.grid4
      n == Len(g)
      k == n \div 4
      gp == PagesFrom(g)
  IN n % 4 = 3 =>
       /\ Len(gp) = k + 1
       /\ \A j \in 1..k :
            gp[j] = [type |-> "grid2x2", items |-> SubSeq(g, 4 * j - 3, 4 * j)]
       /\ gp[k + 1] = [type |-> "twoRows", items |-> <<g[n - 2], g[n - 1]>>]
       /\ pages[Len(pages)] = gp[k + 1]
       /\ ~InSeq(g[n], FlatFrom(pages))

\* C3 witness: a grid2x2 bucket of 7 (k = 1) after a page of another bucket
C3_Witness ==
  /\ Len(buckets.grid4) = 7
  /\ Len(pages) = 3
  /\ pages[2].type = "grid2x2"
  /\ pages[3].type = "twoRows"

\* C4: a twoColumns bucket of odd size n yields (n-1)/2 twoColumns pages of
\* consecutive pairs followed by one single page with the last photo, and no
\* photo of the bucket is dropped; an even bucket yields n/2 twoColumns pages
\* and no single page.  The same holds for the twoRows bucket.
C4_PairBuckets ==
  LET e == FlatFrom(pages) IN
    /\ PagesFrom(buckets.twoCols) = ExpectedPairPages("twoColumns", buckets.twoCols)
    /\ PagesFrom(buckets.twoRows) = ExpectedPairPages("twoRows", buckets.twoRows)
    /\ \A k \in 1..Len(buckets.twoCols) : Occurrences(buckets.twoCols[k], e) = 1
    /\ \A k \in 1..Len(buckets.twoRows) : Occurrences(buckets.twoRows[k], e) = 1

\* C4 witness: an odd twoColumns bucket of 3 and an even twoRows bucket of 4
C4_Witness ==
  /\ Len(buckets.twoCols) = 3
  /\ Len(buckets.twoRows) = 4
  /\ Len(pages) >= 4
  /\ Len(PagesFrom(buckets.twoCols)) = 2
  /\ Len(PagesFrom(buckets.twoRows)) = 2

\* C5: for a grid2x2 bucket of size 4k+2 the final page is a twoColumns page
\* with both leftover photos; for 4k+1 it is a single page with the one
\* leftover photo; for 4k all k pages of the bucket are grid2x2 pages of 4.
C5_GridRemainders ==
  LET g == buckets.grid4
      n == Len(g)
      gp == PagesFrom(g)
  IN /\ n % 4 = 2 =>
          pages[Len(pages)] = [type |-> "twoColumns", items |-> <<g[n - 1], g[n]>>]
     /\ n % 4 = 1 =>
          pages[Len(pages)] = [type |-> "single", items |-> <<g[n]>>]
     /\ n % 4 = 0 =>
          /\ Len(gp) = n \div 4
          /\ \A j \in 1..Len(gp) :
               gp[j] = [type |-> "grid2x2", items |-> SubSeq(g, 4 * j - 3, 4 * j)]

\* C5 witness: a grid2x2 bucket of 6 (k = 1, remainder 2) after another page
C5_Witness ==
  /\ Len(buckets.grid4) = 6
  /\ Len(pages) = 3
  /\ pages[2].type = "grid2x2"
  /\ pages[3].type = "twoColumns"

\* C6: for the photos classified single there is exactly one page per photo,
\* of type single, holding exactly that photo, in the photos' input order.
C6_SinglesOnePageEach ==
  LET s == buckets.singles IN
    /\ PagesFrom(s) = [k \in 1..Len(s) |-> [type |-> "single", items |-> <<s[k]>>]]
    /\ \A a, b \in 1..Len(s) :
         a < b =>
           /\ \E x, y \in 1..Len(items) : x < y /\ items[x] = s[a] /\ items[y] = s[b]
           /\ \E x, y \in 1..Len(pages) :
                x < y /\ pages[x].items = <<s[a]>> /\ pages[y].items = <<s[b]>>

\* C6 witness: three single photos, not adjacent in the input
C6_Witness ==
  /\ Len(buckets.singles) = 3
  /\ Len(items) = 6
  /\ ~InSeq(items[1], buckets.singles)
  /\ InSeq(items[2], buckets.singles)
  /\ ~InSeq(items[3], buckets.singles)
  /\ Len(pages) >= 3

\* C7: all pages of the single bucket come first, then those of the
\* twoColumns bucket, then those of the twoRows bucket, then those of the
\* grid2x2 bucket (leftover and re-tagged pages included), never interleaved,
\* whatever the order of the photos in the input.
C7_BucketOrder ==
  LET rank == RanksFrom(pages) IN
    /\ \A p \in 1..Len(pages) : rank[p] \in 1..4
    /\ \A p, q \in 1..Len(pages) : p < q => rank[p] <= rank[q]

\* C7 witness: the input lists the buckets in the reverse of the output order
C7_Witness ==
  /\ Len(items) = 6
  /\ InSeq(items[1], buckets.grid4)
  /\ InSeq(items[2], buckets.twoRows)
  /\ InSeq(items[3], buckets.twoCols)
  /\ InSeq(items[4], buckets.singles)
  /\ InSeq(items[5], buckets.grid4)
  /\ InSeq(items[6], buckets.twoCols)
  /\ Len(pages) = 4

\* C8: two emitted photos of the same bucket appear in the output (by page
\* index, then position within the page) in their input order.
C8_OrderWithinBucket ==
  LET e == FlatFrom(pages) IN
    \A tag \in Tags :
      LET bk == BucketOfTag(tag) IN
        \* the bucket's photos as they are ordered in the output are the
        \* bucket's emitted photos as they are ordered in the input
        SelectSeq(e, LAMBDA ph : InSeq(ph, bk))
          = SelectSeq(items, LAMBDA ph : InSeq(ph, bk) /\ InSeq(ph, e))

\* C8 witness: same-bucket photos spread over several pages and interleaved
\* with photos of other buckets in the input
C8_Witness ==
  /\ Len(items) = 7
  /\ Len(buckets.grid4) = 5
  /\ InSeq(items[1], buckets.grid4)
  /\ InSeq(items[2], buckets.twoCols)
  /\ InSeq(items[7], buckets.grid4)
  /\ Len(FlatFrom(pages)) = 7

\* s is w with each letter in either case
IsCasingOf(s, w) ==
  /\ Len(s) = Len(w)
  /\ \A k \in 1..Len(w) : s[k] = w[k] \/ s[k] = toUpperChar(w[k])

RECURSIVE Casings(_)
\* every casing of the word w
Casings(w) ==
  IF w = <<>> THEN {<<>>}
  ELSE {<<c>> \o r : c \in {Head(w), toUpperChar(Head(w))}, r \in Casings(Tail(w))}

\* the label of photo it is some casing of a synonym of tag
Recognized(it, tag) ==
  it.hasLayout /\ \E w \in Synonyms(tag) : IsCasingOf(it.layout, w)

\* every casing of every synonym normalizes to the synonym's tag, whatever
\* the photo's orientation
EveryCasingNormalizes ==
  \A tag \in Tags : \A w \in Synonyms(tag) : \A c \in Casings(w) : \A d \in Dims :
    normalize(Photo(1, d[1], d[2], TRUE, c)) = tag

\* C9: label normalization is case-insensitive over the synonym set: any
\* casing of a synonym of a tag gives that tag, and a photo with such a label
\* is in that tag's bucket (and in no other) regardless of width and height.
C9_SynonymsCaseInsensitive ==
  /\ EveryCasingNormalizes
  /\ \A i \in 1..Len(items) : \A tag \in Tags :
       Recognized(items[i], tag) =>
         /\ normalize(items[i]) = tag
         /\ \A other \in Tags :
              InSeq(items[i], BucketOfTag(other)) <=> other = tag

\* C9 witness: a landscape photo labelled "Two-Columns" is in the twoColumns
\* bucket and paged from it
C9_Witness ==
  /\ Len(items) = 1
  /\ items[1].hasLayout
  /\ items[1].layout = <<"T","w","o","-","C","o","l","u","m","n","s">>
  /\ items[1].width = 1200
  /\ items[1].height = 800
  /\ buckets.twoCols = <<items[1]>>
  /\ Len(pages) = 1

\* C10: a photo whose label is absent, empty or matches no synonym is
\* classified by orientation only: width >= height gives twoRows, width <
\* height gives twoColumns; a photo is in the single or grid2x2 bucket only
\* through a recognized label.
C10_OrientationFallback ==
  \A i \in 1..Len(items) :
    LET it == items[i] IN
      /\ (\A tag \in Tags : ~Recognized(it, tag)) =>
           /\ normalize(it) = Undefined
           /\ \A other \in Tags :
                InSeq(it, BucketOfTag(other)) <=>
                  other = (IF it.width >= it.height THEN "twoRows" ELSE "twoColumns")
      /\ InSeq(it, buckets.singles) => Recognized(it, "single")
      /\ InSeq(it, buckets.grid4) => Recognized(it, "grid2x2")

\* C10 witness: a portrait photo labelled "foo" is in the twoColumns bucket
C10_Witness ==
  /\ Len(items) = 1
  /\ items[1].hasLayout
  /\ items[1].layout = <<"f","o","o">>
  /\ items[1].width = 800
  /\ items[1].height = 1200
  /\ buckets.twoCols = <<items[1]>>
  /\ Len(pages) = 1

(* ---------------------- CropReview: vocabulary, claims ------------------- *)

Edges == {"left", "right", "top", "bottom"}

\* the paired edge
Opposite(e) ==
  CASE e = "left" -> "right"
    [] e = "right" -> "left"
    [] e = "top" -> "bottom"
    [] e = "bottom" -> "top"

\* the photo's size along the axis of edge e
AxisSize(cur, e) == IF e \in {"left", "right"} THEN cur.width ELSE cur.height

\* axisSize - 10 - oppositeEdgeInset
UpperBound(cur, d, e) == AxisSize(cur, e) - 10 - Inset(d, Opposite(e))

\* the CropRect invariant of crop c on a photo
CropRectInv(c, cur) ==
  /\ \A e \in Edges : Inset(c, e) >= 0
  /\ Inset(c, "left") + Inset(c, "right") <= cur.width - 10
  /\ Inset(c, "top") + Inset(c, "bottom") <= cur.height - 10

\* the item of the crop review with the given id
ItemWithId(id) == cropItems[CHOOSE k \in 1..Len(cropItems) : cropItems[k].id = id]

\* C12: the value a slider change puts into the draft is the requested value
\* clamped to [0, axisSize - 10 - oppositeEdgeInset]: above the upper bound
\* it is the upper bound, below 0 it is 0, else the requested value.
C12_ClampToBounds ==
  (lastOp.op = "slider" /\ hasCurrent(cropItems, activeIndex)) =>
    LET e == lastOp.edge
        v == lastOp.val
        ub == UpperBound(current, draftCrop, e)
    IN draftCrop[e] = IF v > ub THEN ub ELSE IF v < 0 THEN 0 ELSE v

\* C13: after any sequence of slider changes the draft has non-negative
\* insets with left + right <= width - 10 and top + bottom <= height - 10.
C13_EditsKeepInvariant ==
  (lastOp.op = "slider" /\ hasCurrent(cropItems, activeIndex)) =>
    CropRectInv(draftCrop, current)

\* C14: every CropRect the crop editor holds or emits (the draft, also after
\* Reset or Clear, and the crop passed to onChangeCrop by Save & Next) has
\* non-negative insets with left + right <= width - 10 and
\* top + bottom <= height - 10.
C14_CropRectsValid ==
  /\ hasCurrent(cropItems, activeIndex) => CropRectInv(draftCrop, current)
  /\ (lastCall.called /\ ~lastCall.remove) =>
       CropRectInv(lastCall.crop, ItemWithId(lastCall.id))

\* C15: after Clear the photo's user override is removed (onChangeCrop was
\* called with null for its id) and the effective crop and the draft are the
\* suggested crop, or the empty crop if none is suggested.
C15_ClearRestoresSuggested ==
  lastOp.op = "clear" =>
    /\ lastCall = Call(current.id, TRUE, EmptyCrop)
    /\ ~current.hasUser
    /\ effectiveCrop(current) = (IF current.hasCrop THEN current.crop ELSE EmptyCrop)
    /\ draftCrop = (IF current.hasCrop THEN current.crop ELSE EmptyCrop)

\* C15 witness: Clear has run on a photo that had a user override, after
\* slider changes
C15_Witness ==
  /\ lastOp.op = "clear"
  /\ lastOp.had
  /\ edits = 2
  /\ current.id = 1
  /\ draftCrop = [right |-> 400]

\* C16 as stated: after Reset the photo's override, and hence its effective
\* crop, is the suggested crop, also when a different override was saved.
C16_ResetRestoresOverride ==
  lastOp.op = "reset" =>
    effectiveCrop(current) = (IF current.hasCrop THEN current.crop ELSE EmptyCrop)

\* C16 amended: after Reset the draft is the suggested crop (the empty crop
\* if none is suggested); Reset calls onChangeCrop not at all and the photo
\* keeps the user override it had.
C16_ResetRestoresDraft ==
  lastOp.op = "reset" =>
    /\ draftCrop = (IF current.hasCrop THEN current.crop ELSE EmptyCrop)
    /\ ~lastCall.called
    /\ current.hasUser = lastOp.had

\* C16 witness: Reset has run on a photo whose saved override differs from
\* the suggested crop
C16_Witness ==
  /\ lastOp.op = "reset"
  /\ current.hasUser
  /\ current.userCrop # current.crop
  /\ DOMAIN current.userCrop # {}
  /\ draftCrop = current.crop

\* C17: each overlay offset is the crop inset times its axis scale
\* (offset * photo size = inset * box size, an unset inset counting as 0),
\* with 1 in place of a box dimension of 0.
C17_OverlayScaled ==
  hasCurrent(cropItems, activeIndex) =>
    LET bw == IF size.width = 0 THEN 1 ELSE size.width
        bh == IF size.height = 0 THEN 1 ELSE size.height
        l == IF "left" \in DOMAIN draftCrop THEN draftCrop.left ELSE 0
        r == IF "right" \in DOMAIN draftCrop THEN draftCrop.right ELSE 0
        t == IF "top" \in DOMAIN draftCrop THEN draftCrop.top ELSE 0
        b == IF "bottom" \in DOMAIN draftCrop THEN draftCrop.bottom ELSE 0
    IN /\ leftW.den > 0 /\ rightW.den > 0 /\ topH.den > 0 /\ bottomH.den > 0
       /\ leftW.num * current.width = l * bw * leftW.den
       /\ rightW.num * current.width = r * bw * rightW.den
       /\ topH.num * current.height = t * bh * topH.den
       /\ bottomH.num * current.height = b * bh * bottomH.den

\* C17 witness: a draft with insets on both axes, one unset inset, shown in a
\* box with a positive width and a height of 0
C17_Witness ==
  /\ hasCurrent(cropItems, activeIndex)
  /\ size = [width |-> 250, height |-> 0]
  /\ leftW.num > 0
  /\ topH.num > 0
  /\ "bottom" \notin DOMAIN draftCrop
  /\ current.width # current.height

\* C18: the edge clamp is idempotent and last-write-wins: from the draft at
\* hand, a requested value applied to an edge twice gives the draft of
\* applying it once, the accepted value submitted again leaves the draft
\* unchanged, and of two successive edits of one edge only the later shows.
C18_IdempotentLastWriteWins ==
  hasCurrent(cropItems, activeIndex) =>
    /\ \A e \in Edges : \A v \in Requests :
         LET d1 == afterSlider(current, draftCrop, e, v)
         IN /\ afterSlider(current, d1, e, v) = d1
            /\ afterSlider(current, d1, e, d1[e]) = d1
            /\ \A v2 \in Requests :
                 afterSlider(current, d1, e, v2) = afterSlider(current, draftCrop, e, v2)
    /\ lastOp.op = "slider" =>
         /\ afterSlider(current, draftCrop, lastOp.edge, lastOp.val) = draftCrop
         /\ afterSlider(current, draftCrop, lastOp.edge, draftCrop[lastOp.edge]) = draftCrop

\* C18 witness: two slider changes have run, the last one on the left edge
\* with a request that was clamped to the upper bound
C18_Witness ==
  /\ lastOp = Op("slider", "left", 700, FALSE)
  /\ edits = 2
  /\ draftCrop.left = 590
  /\ Inset(draftCrop, "right") = 400

C20_BulkRunCompletes ==
  /\ [](/\ isAnalyzing = (run.pc = "await")
        /\ run.pc = "idle" =>
             \A i \in 1..Len(run.toAnalyze) :
               /\ requests[run.toAnalyze[i]] >= 1
               /\ \A k \in 1..Len(albumItems) :
                    albumItems[k].id = run.toAnalyze[i] =>
                      \/ albumItems[k].status = "done" /\ albumItems[k].analysis
                      \/ albumItems[k].status = "error" /\ albumItems[k].error)
  /\ (run.pc = "await") ~> (run.pc = "idle" /\ ~isAnalyzing)

\* C20 witness: a run over two photos has ended, the call of the first threw
\* and the call of the second returned; no photo had its own Analyze pressed
C20_Witness ==
  /\ run.pc = "idle"
  /\ ~isAnalyzing
  /\ run.toAnalyze = <<1, 2>>
  /\ Len(albumItems) >= 2
  /\ albumItems[1] = [id |-> 1, status |-> "error", analysis |-> FALSE, error |-> TRUE]
  /\ albumItems[2] = [id |-> 2, status |-> "done", analysis |-> TRUE, error |-> FALSE]
  /\ requests[1] = 1
  /\ requests[2] = 1
  /\ calls = {}

\* C21: under every interleaving of the bulk run, the per-photo Analyze,
\* Remove and Clear, the status of a photo that stays in the list only moves
\* forward along pending -> analyzing -> done or error, a photo that is done
\* or error keeps its status and analysis, and analyzeImage is called at most
\* once for each photo.
C21_StatusOnlyForward ==
  [][/\ \A k \in 1..Len(albumItems) : \A j \in 1..Len(albumItems') :
          albumItems[k].id = albumItems'[j].id =>
            /\ albumItems[k].status = "pending" =>
                 albumItems'[j].status \in {"pending", "analyzing"}
            /\ albumItems[k].status = "analyzing" =>
                 albumItems'[j].status \in {"analyzing", "done", "error"}
            /\ albumItems[k].status \in {"done", "error"} =>
                 /\ albumItems'[j].status = albumItems[k].status
                 /\ albumItems'[j].analysis = albumItems[k].analysis
     /\ \A id \in 1..MaxPhotos : requests'[id] <= 1]_vars

\* C22: in the crop review, after any sequence of Prev, Next, Save & Next and
\* changes of the item list, 0 <= activeIndex <= max(0, n - 1) where n is
\* the number of photos with a suggested crop; when n > 0 the active index
\* names an existing photo.
C22_ActiveIndexInRange ==
  LET n == Len(itemsWithCrop(cropItems))
  IN /\ 0 <= activeIndex
     /\ activeIndex <= (IF n - 1 > 0 THEN n - 1 ELSE 0)
     /\ n > 0 => \E k \in 1..n : k = activeIndex + 1

\* C22 witness: the list lost a photo with a crop while the last photo was
\* shown, and the effect moved the index to the new last photo
C22_Witness ==
  /\ lastOp.op = "items"
  /\ lastOp.val > activeIndex
  /\ Len(itemsWithCrop(cropItems)) >= 1
  /\ activeIndex = Len(itemsWithCrop(cropItems)) - 1

====
